---------------------------- MODULE Spec2Model ----------------------------
(***************************************************************************)
(* Model of yada.py: the three matchers (find_direct, find_reversed,       *)
(* find_els), the highlighter (escape_html, highlight_text) and the report *)
(* assembler (generate_html).                                              *)
(*                                                                         *)
(* A Python str is a sequence of one-character strings.  The character     *)
(* U+00DF (LATIN SMALL LETTER SHARP S) is written "sz"; it is the one      *)
(* character of the model whose str.upper() is two characters long ("SS"). *)
(* Fixed template text of the report (tags, labels) is written as strings  *)
(* of more than one character, so that it can be told from data.           *)
(***************************************************************************)
EXTENDS Integers, Sequences, FiniteSets, TLC

VARIABLES text, term, fn, pc, idx, matches, els, out,
          verses, counts, html, report

vars == <<text, term, fn, pc, idx, matches, els, out,
          verses, counts, html, report>>

matchVars == <<text, term, fn, idx, matches, els, out>>
htmlVars == <<verses, counts, html, report>>

-----------------------------------------------------------------------------
(* Bounds of the model *)

MaxLen == 3
MaxTerm == 2
MaxSkip == 3
MaxVerses == 2

-----------------------------------------------------------------------------
(* Python str primitives *)

Min(S) == CHOOSE x \in S : \A y \in S : x <= y

LowerLetters == <<"a","b","c","d","e","f","g","h","i","j","k","l","m",
                  "n","o","p","q","r","s","t","u","v","w","x","y","z">>
UpperLetters == <<"A","B","C","D","E","F","G","H","I","J","K","L","M",
                  "N","O","P","Q","R","S","T","U","V","W","X","Y","Z">>

Range(s) == {s[i] : i \in 1..Len(s)}

\* re '[A-Za-z]'
IsLetter(c) == c \in Range(LowerLetters) \cup Range(UpperLetters)

\* str.upper() of one character
UpperChar(c) ==
    IF c = "sz" THEN <<"S", "S">>
    ELSE IF c \in Range(LowerLetters)
         THEN <<UpperLetters[CHOOSE i \in 1..26 : LowerLetters[i] = c]>>
         ELSE <<c>>

RECURSIVE upper(_)
upper(s) == IF s = <<>> THEN <<>> ELSE UpperChar(Head(s)) \o upper(Tail(s))

\* s[::-1]
RECURSIVE Reverse(_)
Reverse(s) == IF s = <<>> THEN <<>> ELSE Append(Reverse(Tail(s)), Head(s))

\* s[i:j] for 0 <= i, 0 <= j: the bounds are clamped to len(s)
Slice(s, i, j) ==
    LET lo == IF i > Len(s) THEN Len(s) ELSE i
        hi == IF j > Len(s) THEN Len(s) ELSE j
    IN  SubSeq(s, lo + 1, hi)

\* hay.find(needle, from): the lowest index >= from where needle occurs, or -1
Find(hay, needle, from) ==
    LET hits == {i \in from..(Len(hay) - Len(needle)) :
                    SubSeq(hay, i + 1, i + Len(needle)) = needle}
    IN  IF hits = {} THEN -1 ELSE Min(hits)

\* ''.join(ss), by halves
RECURSIVE Concat(_)
Concat(ss) ==
    IF Len(ss) = 0 THEN <<>>
    ELSE IF Len(ss) = 1 THEN ss[1]
    ELSE LET h == Len(ss) \div 2
         IN  Concat(SubSeq(ss, 1, h)) \o Concat(SubSeq(ss, h + 1, Len(ss)))

-----------------------------------------------------------------------------
(* find_direct / find_reversed *)

\* the needle searched for: term.upper(), or term.upper()[::-1]
Needle(f, w) == IF f = "reversed" THEN Reverse(upper(w)) ELSE upper(w)

\* idx = text_u.find(needle)
FindFirst(tu, nd) == Find(tu, nd, 0)

\* idx = text_u.find(needle, idx + len(needle))
FindNextMutOverlap(tu, nd, i) == Find(tu, nd, i + 1)

FindNext(tu, nd, i) == Find(tu, nd, i + Len(nd))

\* the while loop, run to its end (only for a loop that ends)
RECURSIVE ScanFrom(_, _, _, _)
ScanFrom(tu, nd, i, acc) ==
    IF i = -1 THEN acc
    ELSE ScanFrom(tu, nd, FindNext(tu, nd, i), Append(acc, <<i, Len(nd)>>))

\* The loop's only control state is idx: an iteration that leaves idx
\* unchanged repeats forever.
ScanDiverges(tu, nd) ==
    LET i == FindFirst(tu, nd) IN i # -1 /\ FindNext(tu, nd, i) = i

find_direct(t, w) == ScanFrom(upper(t), Needle("direct", w),
                              FindFirst(upper(t), Needle("direct", w)), <<>>)

find_reversed(t, w) == ScanFrom(upper(t), Needle("reversed", w),
                                FindFirst(upper(t), Needle("reversed", w)), <<>>)

-----------------------------------------------------------------------------
(* find_els *)

\* cleaned = ''.join(re.findall('[A-Za-z]', text))
Cleaned(t) == SelectSeq(t, IsLetter)

\* end = start + (length - 1) * skip
ElsEndMutOff(start, length, skip) == start + length * skip

ElsEnd(start, length, skip) == start + (length - 1) * skip

\* positions = [start + i * skip for i in range(length)]
ElsPositionsMutOff(start, length, skip) ==
    [i \in 1..length |-> start + i * skip]

ElsPositions(start, length, skip) ==
    [i \in 1..length |-> start + (i - 1) * skip]

\* seq = ''.join(cu[start + i * skip] for i in range(length))
ElsSeq(cu, start, length, skip) ==
    [i \in 1..length |-> cu[start + (i - 1) * skip + 1]]

\* for start in range(n): ... (the break leaves the loop); the results
\* appended from this start on, in order
RECURSIVE ElsStarts(_, _, _, _)
ElsStarts(cleaned, tu, skip, start) ==
    LET cu == upper(cleaned)
        n == Len(cu)
        length == Len(tu)
    IN  IF start >= n THEN <<>>
        ELSE IF ElsEnd(start, length, skip) >= n THEN <<>>
        ELSE (IF ElsSeq(cu, start, length, skip) = tu
              THEN <<[skip |-> skip,
                      positions |-> ElsPositions(start, length, skip),
                      cleaned |-> cleaned]>>
              ELSE <<>>)
             \o ElsStarts(cleaned, tu, skip, start + 1)

\* for skip in range(1, max_skip + 1): ...
ElsSkips(cleaned, tu, max_skip) ==
    Concat([skip \in 1..max_skip |-> ElsStarts(cleaned, tu, skip, 0)])

find_els(t, w, max_skip) == ElsSkips(Cleaned(t), upper(w), max_skip)

-----------------------------------------------------------------------------
(* escape_html / highlight_text *)

\* str.replace(c, rep) for a one-character pattern c
RECURSIVE ReplaceChar(_, _, _)
ReplaceChar(s, c, rep) ==
    IF s = <<>> THEN <<>>
    ELSE (IF Head(s) = c THEN rep ELSE <<Head(s)>>) \o ReplaceChar(Tail(s), c, rep)

Amp == <<"&", "a", "m", "p", ";">>
Lt == <<"&", "l", "t", ";">>
Gt == <<"&", "g", "t", ";">>

\* text.replace('&', '&amp;').replace('<', '&lt;').replace('>', '&gt;')
escape_htmlMutAmpLast(t) ==
    ReplaceChar(ReplaceChar(ReplaceChar(t, "<", Lt), ">", Gt), "&", Amp)

escape_html(t) ==
    ReplaceChar(ReplaceChar(ReplaceChar(t, "&", Amp), "<", Lt), ">", Gt)

\* f'<span class="{css_class}">'
SpanOpen(css) == <<"<span class=\"", css, "\">">>
SpanClose == <<"</span>">>

\* sorted(matches, key=lambda x: x[0]): a stable insertion sort
RECURSIVE InsertByStart(_, _)
InsertByStart(sorted, m) ==
    IF sorted = <<>> THEN <<m>>
    ELSE IF sorted[Len(sorted)][1] <= m[1] THEN Append(sorted, m)
    ELSE Append(InsertByStart(SubSeq(sorted, 1, Len(sorted) - 1), m),
                sorted[Len(sorted)])

RECURSIVE SortByStart(_)
SortByStart(ms) ==
    IF ms = <<>> THEN <<>>
    ELSE InsertByStart(SortByStart(SubSeq(ms, 1, Len(ms) - 1)), ms[Len(ms)])

\* the for loop of highlight_text: parts, last
RECURSIVE HighlightParts(_, _, _, _, _)
HighlightParts(t, ms, css, last, parts) ==
    IF ms = <<>> THEN parts \o escape_html(Slice(t, last, Len(t)))
    ELSE LET start == Head(ms)[1]
             length == Head(ms)[2]
         IN  HighlightParts(t, Tail(ms), css, start + length,
                 parts \o escape_html(Slice(t, last, start))
                       \o SpanOpen(css)
                       \o escape_html(Slice(t, start, start + length))
                       \o SpanClose)

highlight_text(t, ms, css) ==
    IF ms = <<>> THEN escape_html(t)
    ELSE HighlightParts(t, SortByStart(ms), css, 0, <<>>)

\* highlights = [(p, 1) for p in pos]
ElsHighlights(pos) == [i \in 1..Len(pos) |-> <<pos[i], 1>>]

CssOf(f) == CASE f = "direct" -> "highlight-direct"
              [] f = "reversed" -> "highlight-reverse"
              [] OTHER -> "highlight-els"

-----------------------------------------------------------------------------
(* One matcher call on one text, and the highlighting of its result *)

Strings(alphabet, n) == UNION {[1..k -> alphabet] : k \in 0..n}

TextAlphabet == {"a", "s", "S", "sz", ","}
TermAlphabet == {"a", "s", "sz"}

\* a non-empty needle matches at most len(text_u) <= 2 * len(text) times
MatchCap == 2 * MaxLen + 2

Blank ==
    /\ verses = <<>>
    /\ counts = <<0, 0, 0>>
    /\ html = <<>>
    /\ report = <<>>

Init ==
    /\ text \in Strings(TextAlphabet, MaxLen)
    /\ term \in Strings(TermAlphabet, MaxTerm)
    /\ fn = "none"
    /\ pc = "idle"
    /\ idx = -1
    /\ matches = <<>>
    /\ els = <<>>
    /\ out = <<>>
    /\ Blank

\* find_direct / find_reversed up to the first find()
FindCall ==
    /\ pc = "idle"
    /\ \E f \in {"direct", "reversed"} :
          /\ fn' = f
          /\ idx' = FindFirst(upper(text), Needle(f, term))
    /\ pc' = "loop"
    /\ UNCHANGED <<text, term, matches, els, out>>
    /\ UNCHANGED htmlVars

\* one iteration of 'while idx != -1'
FindLoop ==
    /\ pc = "loop"
    /\ idx # -1
    /\ Len(matches) < MatchCap
    /\ matches' = Append(matches, <<idx, Len(Needle(fn, term))>>)
    /\ idx' = FindNext(upper(text), Needle(fn, term), idx)
    /\ UNCHANGED <<text, term, fn, pc, els, out>>
    /\ UNCHANGED htmlVars

\* return matches
FindReturn ==
    /\ pc = "loop"
    /\ idx = -1
    /\ pc' = "returned"
    /\ UNCHANGED <<text, term, fn, idx, matches, els, out>>
    /\ UNCHANGED htmlVars

\* find_els(text, term, max_skip)
ElsCall ==
    /\ pc = "idle"
    /\ fn' = "els"
    /\ els' = find_els(text, term, MaxSkip)
    /\ pc' = "returned"
    /\ UNCHANGED <<text, term, idx, matches, out>>
    /\ UNCHANGED htmlVars

\* generate_html's use of highlight_text: once for a non-empty direct or
\* reversed result, once per ELS result
Highlight ==
    /\ pc = "returned"
    /\ IF fn = "els"
       THEN /\ els # <<>>
            /\ out' = [i \in 1..Len(els) |->
                         highlight_text(els[i].cleaned,
                                        ElsHighlights(els[i].positions),
                                        CssOf(fn))]
       ELSE /\ matches # <<>>
            /\ out' = <<highlight_text(text, matches, CssOf(fn))>>
    /\ pc' = "shown"
    /\ UNCHANGED <<text, term, fn, idx, matches, els>>
    /\ UNCHANGED htmlVars

Next == FindCall \/ FindLoop \/ FindReturn \/ ElsCall \/ Highlight

Spec == Init /\ [][Next]_vars

-----------------------------------------------------------------------------
(* The same machine on texts that need escaping *)

HlAlphabet == {"a", "&", "<", "sz"}
HlTermAlphabet == {"a", "&", "<"}

\* texts that already hold an entity or a '>'
EntityTexts == { <<"&", "l", "t", ";">>, <<"&", "g", "t", ";">>,
                 <<"&", "a", "m", "p", ";">>, <<"a", ">", "a">>,
                 <<"<", "a", ">", "&", "a">> }

InitHl ==
    /\ text \in Strings(HlAlphabet, MaxLen) \cup EntityTexts
    /\ term \in Strings(HlTermAlphabet, MaxTerm)
    /\ fn = "none"
    /\ pc = "idle"
    /\ idx = -1
    /\ matches = <<>>
    /\ els = <<>>
    /\ out = <<>>
    /\ Blank

SpecHl == InitHl /\ [][Next]_vars

-----------------------------------------------------------------------------
(* Properties of find_direct and find_reversed *)

Returned == pc \in {"returned", "shown"}
ScanReturned == Returned /\ fn \in {"direct", "reversed"}
ElsReturned == Returned /\ fn = "els"

MStart(i) == matches[i][1]
MLen(i) == matches[i][2]

\* the term as the claim names it: W uppercased, or the reversed W uppercased
ClaimNeedle == IF fn = "reversed" THEN upper(Reverse(term)) ELSE upper(term)

\* C1: the intervals returned by find_direct and find_reversed for a non-empty
\* term are sorted by strictly increasing start, do not overlap, lie inside
\* the original text, and the slice of the original text they name, uppercased,
\* is the (reversed) term uppercased.
C1_IntervalsInOriginalText ==
    (ScanReturned /\ term # <<>>) =>
        /\ \A i \in 1..Len(matches) :
              /\ 0 <= MStart(i)
              /\ MStart(i) + MLen(i) <= Len(text)
              /\ upper(Slice(text, MStart(i), MStart(i) + MLen(i))) = ClaimNeedle
        /\ \A i \in 2..Len(matches) :
              /\ MStart(i) > MStart(i - 1)
              /\ MStart(i) >= MStart(i - 1) + MLen(i - 1)

\* a case-insensitive occurrence of the needle in the original text at offset p
OccursAt(t, nd, p) == \E q \in p..Len(t) : upper(SubSeq(t, p + 1, q)) = nd

LeftmostFrom(t, nd, from) ==
    LET ps == {p \in from..Len(t) : OccursAt(t, nd, p)}
    IN  IF ps = {} THEN -1 ELSE Min(ps)

\* C2: find_direct and find_reversed are the greedy leftmost-first scan of the
\* text: the first interval starts at the leftmost occurrence of the needle,
\* each next one at the leftmost occurrence at or after the end of the one
\* before, and no occurrence begins at or after the end of the last one.
C2_GreedyLeftmostScan ==
    (ScanReturned /\ term # <<>>) =>
        /\ LeftmostFrom(text, ClaimNeedle, 0) # -1 => matches # <<>>
        /\ matches # <<>> => MStart(1) = LeftmostFrom(text, ClaimNeedle, 0)
        /\ \A i \in 2..Len(matches) :
              MStart(i) = LeftmostFrom(text, ClaimNeedle,
                                       MStart(i - 1) + MLen(i - 1))
        /\ matches # <<>> =>
              LeftmostFrom(text, ClaimNeedle,
                           MStart(Len(matches)) + MLen(Len(matches))) = -1

\* C3: with the empty term find_direct and find_reversed are defined: the
\* term is rejected or yields no matches, so the scan loop is never entered
\* and no interval is recorded.
C3_EmptyTermDefined ==
    (fn \in {"direct", "reversed"} /\ term = <<>>) =>
        /\ matches = <<>>
        /\ pc = "loop" => idx = -1

-----------------------------------------------------------------------------
(* Properties of find_els *)

\* the letter of the cleaned text at index p (from 0), uppercased
CleanedUpperAt(r, p) == upper(<<r.cleaned[p + 1]>>)

\* an ELS result is an arithmetic progression of L indices inside its cleaned
\* text, by steps of its skip, with 1 <= skip <= max_skip
ValidProgression(r, L) ==
    /\ r.skip \in 1..MaxSkip
    /\ Len(r.positions) = L
    /\ r.cleaned = Cleaned(text)
    /\ \A i \in 1..L :
          /\ r.positions[i] = r.positions[1] + (i - 1) * r.skip
          /\ 0 <= r.positions[i]
          /\ r.positions[i] < Len(r.cleaned)

Sampled(c, start, skip, L) ==
    Concat([i \in 1..L |-> upper(<<c[start + (i - 1) * skip + 1]>>)])

\* (skip, start) is a witness of a term of L sampled letters
Qualifies(c, L, skip, start) ==
    /\ skip \in 1..MaxSkip
    /\ start >= 0
    /\ start + (L - 1) * skip < Len(c)
    /\ Sampled(c, start, skip, L) = upper(term)

PairOf(k) == <<els[k].skip, els[k].positions[1]>>

PairBefore(p, q) == p[1] < q[1] \/ (p[1] = q[1] /\ p[2] < q[2])

\* the results are exactly the witnesses of L letters, in (skip, start) order
AllWitnessesInOrder(L) ==
    /\ \A k \in 1..Len(els) :
          /\ Len(els[k].positions) >= 1
          /\ Qualifies(Cleaned(text), L, PairOf(k)[1], PairOf(k)[2])
    /\ \A skip \in 1..MaxSkip : \A start \in 0..Len(Cleaned(text)) :
          Qualifies(Cleaned(text), L, skip, start) =>
              \E k \in 1..Len(els) : PairOf(k) = <<skip, start>>
    /\ \A k \in 2..Len(els) : PairBefore(PairOf(k - 1), PairOf(k))

RECURSIVE SkipOneStarts(_)
SkipOneStarts(rs) ==
    IF rs = <<>> THEN <<>>
    ELSE (IF Head(rs).skip = 1 THEN <<Head(rs).positions[1]>> ELSE <<>>)
         \o SkipOneStarts(Tail(rs))

DirectStarts(ms) == [i \in 1..Len(ms) |-> ms[i][1]]

\* C6 as stated: the skip = 1 starts are the starts find_direct returns on
\* the cleaned text.
C6_SkipOneIsDirect ==
    (ElsReturned /\ term # <<>>) =>
        SkipOneStarts(els) = DirectStarts(find_direct(Cleaned(text), term))

\* the least element of E at or after from, or -1
NextIn(E, from) ==
    LET later == {e \in Range(E) : e >= from}
    IN  IF later = {} THEN -1 ELSE Min(later)

\* C6 (amended): find_direct on the cleaned text returns the greedy
\* non-overlapping selection of the skip = 1 starts of find_els: its first
\* start is the first skip = 1 start, each next one is the first skip = 1
\* start at or after the end of the match before, and no skip = 1 start lies
\* at or after the end of its last match; the two sequences are the same when
\* no two skip = 1 starts are closer than the length of the uppercased term.
C6_DirectIsGreedySelection ==
    (ElsReturned /\ term # <<>>) =>
        LET E == SkipOneStarts(els)
            D == DirectStarts(find_direct(Cleaned(text), term))
            L == Len(upper(term))
        IN  /\ D # <<>> <=> E # <<>>
            /\ D # <<>> => D[1] = E[1]
            /\ \A i \in 2..Len(D) : D[i] = NextIn(E, D[i - 1] + L)
            /\ D # <<>> => NextIn(E, D[Len(D)] + L) = -1
            /\ (\A i \in 2..Len(E) : E[i] >= E[i - 1] + L) => D = E

\* the skip = 1 results overlap, and find_direct keeps only the first
W_SkipOneOverlap ==
    /\ ElsReturned
    /\ Len(term) = 2
    /\ Len(SkipOneStarts(els)) = 2
    /\ Len(find_direct(Cleaned(text), term)) = 1

-----------------------------------------------------------------------------
(* Properties of highlight_text *)

MarkerTokens == {"<span class=\"", "\">", "</span>",
                 "highlight-direct", "highlight-reverse", "highlight-els"}

\* remove the <span class=...> and </span> markers
StripMarkers(o) == SelectSeq(o, LAMBDA tok : tok \notin MarkerTokens)

\* replace every occurrence of pat, left to right, by rep
RECURSIVE ReplaceSub(_, _, _)
ReplaceSub(s, pat, rep) ==
    IF Len(s) < Len(pat) THEN s
    ELSE IF SubSeq(s, 1, Len(pat)) = pat
         THEN rep \o ReplaceSub(SubSeq(s, Len(pat) + 1, Len(s)), pat, rep)
         ELSE <<Head(s)>> \o ReplaceSub(Tail(s), pat, rep)

\* un-escape &lt;, &gt;, &amp;, in this order
Unescape(s) ==
    ReplaceSub(ReplaceSub(ReplaceSub(s, Lt, <<"<">>), Gt, <<">">>), Amp, <<"&">>)

\* the contents of the marked segments, in order
RECURSIVE MarkedSegments(_, _, _)
MarkedSegments(o, inside, cur) ==
    IF o = <<>> THEN <<>>
    ELSE IF Head(o) = "<span class=\""
         THEN MarkedSegments(SubSeq(o, 4, Len(o)), TRUE, <<>>)
    ELSE IF Head(o) = "</span>"
         THEN <<cur>> \o MarkedSegments(Tail(o), FALSE, <<>>)
    ELSE MarkedSegments(Tail(o), inside,
                        IF inside THEN Append(cur, Head(o)) ELSE cur)

\* the k-th reference string handed to highlight_text, and its intervals
RefString(k) == IF fn = "els" THEN els[k].cleaned ELSE text
RefIntervals(k) == IF fn = "els" THEN ElsHighlights(els[k].positions) ELSE matches

IntervalContents(k) ==
    LET ms == SortByStart(RefIntervals(k))
    IN  [i \in 1..Len(ms) |-> Slice(RefString(k), ms[i][1], ms[i][1] + ms[i][2])]

\* C7: for every reference string and interval list that generate_html hands
\* to highlight_text, removing the span markers from the output and then
\* un-escaping &lt;, &gt;, &amp; gives back the reference string, and the
\* marked segments, un-escaped, are the contents of the intervals in order.
C7_HighlightRoundTrip ==
    pc = "shown" =>
        \A k \in 1..Len(out) :
            /\ Unescape(StripMarkers(out[k])) = RefString(k)
            /\ LET segs == MarkedSegments(out[k], FALSE, <<>>)
               IN  [i \in 1..Len(segs) |-> Unescape(segs[i])] = IntervalContents(k)

\* a highlighted text with a marked segment and '&' and '<' outside it
W_HighlightEscapes ==
    /\ pc = "shown"
    /\ fn = "direct"
    /\ "&" \in Range(text)
    /\ "<" \in Range(text)
    /\ "<span class=\"" \in Range(out[1])

-----------------------------------------------------------------------------
(* generate_html *)

\* find_els' default max_skip
DefaultMaxSkip == 50

Digits == <<"0", "1", "2", "3", "4", "5", "6", "7", "8", "9">>

\* str(n) for n >= 0
RECURSIVE Str(_)
Str(n) == IF n < 10 THEN <<Digits[n + 1]>>
          ELSE Append(Str(n \div 10), Digits[(n % 10) + 1])

\* f"{v['book']} {v['chapter']}:{v['verse']}"
Loc(v) == v.book \o <<" ">> \o v.chapter \o <<":">> \o v.verse

H3(s) == <<"<h3>">> \o s \o <<"</h3>">>
P(s) == <<"<p>">> \o s \o <<"</p>">>

\* sum(len(find_direct(v['text'], term)) for v in verses)
RECURSIVE DirectCountMutVerses(_, _)
DirectCountMutVerses(vs, w) ==
    IF vs = <<>> THEN 0
    ELSE (IF find_direct(Head(vs).text, w) # <<>> THEN 1 ELSE 0)
         + DirectCountMutVerses(Tail(vs), w)

RECURSIVE DirectCount(_, _)
DirectCount(vs, w) ==
    IF vs = <<>> THEN 0
    ELSE Len(find_direct(Head(vs).text, w)) + DirectCount(Tail(vs), w)

\* sum(len(find_reversed(v['text'], term)) for v in verses)
RECURSIVE ReverseCount(_, _)
ReverseCount(vs, w) ==
    IF vs = <<>> THEN 0
    ELSE Len(find_reversed(Head(vs).text, w)) + ReverseCount(Tail(vs), w)

\* sum(len(find_els(v['text'], term)) for v in verses)
RECURSIVE ElsCount(_, _)
ElsCount(vs, w) ==
    IF vs = <<>> THEN 0
    ELSE Len(find_els(Head(vs).text, w, DefaultMaxSkip)) + ElsCount(Tail(vs), w)

\* the line of three anchor links with the counts
NavLine(c) ==
    <<"<a href=\"#conventional\">Conventional Matches (">> \o Str(c[1])
    \o <<")</a> | <a href=\"#reversed\">Reversed Matches (">> \o Str(c[2])
    \o <<")</a> | <a href=\"#els\">Equidistant Matches (">> \o Str(c[3])
    \o <<")</a>">>

\* html.append(...) from '<!DOCTYPE html>' to '</nav>'
HeadLines(w, c) ==
    << <<"<!DOCTYPE html>">>,
       <<"<html lang=\"en\">">>,
       <<"<head>">>,
       <<"  <meta charset=\"UTF-8\">">>,
       <<"  <title>Yada Bible Word Search Report for \"">> \o w \o <<"\"</title>">>,
       <<"  <style>">>,
       <<"    body { font-family: sans-serif; white-space: pre-wrap; }">>,
       <<"    .highlight-direct { background: yellow; }">>,
       <<"    .highlight-reverse { background: cyan; }">>,
       <<"    .highlight-els { background: magenta; }">>,
       <<"    nav { margin-bottom: 1em; }">>,
       <<"    nav a { margin-right: 1em; text-decoration: none; }">>,
       <<"    h1, h2, h3 { margin-top: 1em; }">>,
       <<"  </style>">>,
       <<"</head>">>,
       <<"<body>">>,
       <<"<h1>Search Term: ">> \o w \o <<"</h1>">>,
       <<"<nav>">>,
       NavLine(c),
       <<"</nav>">> >>

ConventionalHeader == <<"<h2 id=\"conventional\">Conventional Matches</h2>">>
ReversedHeader == <<"<h2 id=\"reversed\">Reversed Matches</h2>">>
ElsHeader == <<"<h2 id=\"els\">Equidistant Letter Sequences (ELS)</h2>">>

\* the body of 'for v in verses' of the Conventional section
ConventionalEntryMutNoSkip(v, w) ==
    << H3(Loc(v)), P(highlight_text(v.text, find_direct(v.text, w), "highlight-direct")) >>

ConventionalEntry(v, w) ==
    LET dm == find_direct(v.text, w)
    IN  IF dm # <<>>
        THEN << H3(Loc(v)), P(highlight_text(v.text, dm, "highlight-direct")) >>
        ELSE <<>>

\* the body of 'for v in verses' of the Reversed section
ReversedEntry(v, w) ==
    LET rm == find_reversed(v.text, w)
    IN  IF rm # <<>>
        THEN << H3(Loc(v)), P(highlight_text(v.text, rm, "highlight-reverse")) >>
        ELSE <<>>

\* the body of 'for m in els'
ElsSubsection(v, m) ==
    << H3(Loc(v) \o <<" (skip=">> \o Str(m.skip) \o <<")">>),
       P(highlight_text(m.cleaned, ElsHighlights(m.positions), "highlight-els")) >>

\* the body of 'for v in verses' of the ELS section
ElsEntry(v, w) ==
    LET ms == find_els(v.text, w, DefaultMaxSkip)
    IN  Concat([k \in 1..Len(ms) |-> ElsSubsection(v, ms[k])])

ConventionalLines(vs, w) == Concat([i \in 1..Len(vs) |-> ConventionalEntry(vs[i], w)])
ReversedLines(vs, w) == Concat([i \in 1..Len(vs) |-> ReversedEntry(vs[i], w)])
ElsLines(vs, w) == Concat([i \in 1..Len(vs) |-> ElsEntry(vs[i], w)])

\* '\n'.join(html), by halves
RECURSIVE Join(_)
Join(ls) ==
    IF Len(ls) = 0 THEN <<>>
    ELSE IF Len(ls) = 1 THEN ls[1]
    ELSE LET h == Len(ls) \div 2
         IN  Join(SubSeq(ls, 1, h)) \o <<"\n">> \o Join(SubSeq(ls, h + 1, Len(ls)))

\* verses as load_bible yields them: book of [1-3]?\s*\w+, chapter and verse
\* of digits, text the rest of the line
SampleVerses ==
    { [book |-> <<"G", "e", "n">>, chapter |-> <<"1">>, verse |-> <<"1">>,
       text |-> <<"a", "b", ",", "<", "b", "a">>],
      [book |-> <<"G", "e", "n">>, chapter |-> <<"1">>, verse |-> <<"2">>,
       text |-> <<"A", "&", "b", "a", "b">>],
      [book |-> <<"1", " ", "J", "o">>, chapter |-> <<"2">>, verse |-> <<"1", "0">>,
       text |-> <<"b", "a", ">">>],
      [book |-> <<"J", "o", "b">>, chapter |-> <<"3">>, verse |-> <<"4">>,
       text |-> <<"s", "<", "&", "l", "t", ";">>],
      [book |-> <<"J", "o", "b">>, chapter |-> <<"3">>, verse |-> <<"5">>,
       text |-> <<"sz", "a", "b">>] }

SampleTerms == { <<"a", "b">>, <<"B">>, <<"<", "b">>, <<"&">>, <<"s", "s">>, <<>> }

InitHtml ==
    /\ verses \in UNION {[1..k -> SampleVerses] : k \in 0..MaxVerses}
    /\ term \in SampleTerms
    /\ pc = "gen_start"
    /\ counts = <<0, 0, 0>>
    /\ html = <<>>
    /\ report = <<>>
    /\ text = <<>>
    /\ fn = "none"
    /\ idx = -1
    /\ matches = <<>>
    /\ els = <<>>
    /\ out = <<>>

\* direct_count, reverse_count, els_count.  The sums call find_direct first:
\* when its loop does not end, generate_html never leaves this statement.
GenCounts ==
    /\ pc = "gen_start"
    /\ \A i \in 1..Len(verses) :
          /\ ~ScanDiverges(upper(verses[i].text), Needle("direct", term))
          /\ ~ScanDiverges(upper(verses[i].text), Needle("reversed", term))
    /\ counts' = <<DirectCount(verses, term), ReverseCount(verses, term),
                   ElsCount(verses, term)>>
    /\ pc' = "gen_head"
    /\ UNCHANGED <<verses, html, report>>
    /\ UNCHANGED matchVars

GenHead ==
    /\ pc = "gen_head"
    /\ html' = HeadLines(term, counts)
    /\ pc' = "gen_conventional"
    /\ UNCHANGED <<verses, counts, report>>
    /\ UNCHANGED matchVars

GenConventional ==
    /\ pc = "gen_conventional"
    /\ html' = Append(html, ConventionalHeader) \o ConventionalLines(verses, term)
    /\ pc' = "gen_reversed"
    /\ UNCHANGED <<verses, counts, report>>
    /\ UNCHANGED matchVars

GenReversed ==
    /\ pc = "gen_reversed"
    /\ html' = Append(html, ReversedHeader) \o ReversedLines(verses, term)
    /\ pc' = "gen_els"
    /\ UNCHANGED <<verses, counts, report>>
    /\ UNCHANGED matchVars

GenEls ==
    /\ pc = "gen_els"
    /\ html' = Append(html, ElsHeader) \o ElsLines(verses, term)
    /\ pc' = "gen_finish"
    /\ UNCHANGED <<verses, counts, report>>
    /\ UNCHANGED matchVars

\* html.append('</body>'), html.append('</html>'), return '\n'.join(html)
GenFinish ==
    /\ pc = "gen_finish"
    /\ html' = html \o << <<"</body>">>, <<"</html>">> >>
    /\ report' = Join(html')
    /\ pc' = "gen_done"
    /\ UNCHANGED <<verses, counts>>
    /\ UNCHANGED matchVars

NextHtml == GenCounts \/ GenHead \/ GenConventional \/ GenReversed \/ GenEls
            \/ GenFinish

SpecHtml == InitHtml /\ [][NextHtml]_vars

-----------------------------------------------------------------------------
(* Properties of generate_html, read off the lines of the finished document *)

GenDone == pc = "gen_done"

\* the indices of the lines equal to a given line
LinesEqual(l) == {i \in 1..Len(html) : html[i] = l}

ConvAt == CHOOSE i \in LinesEqual(ConventionalHeader) : TRUE
RevAt == CHOOSE i \in LinesEqual(ReversedHeader) : TRUE
ElsAt == CHOOSE i \in LinesEqual(ElsHeader) : TRUE
BodyEndAt == CHOOSE i \in LinesEqual(<<"</body>">>) : TRUE

ConvSection == SubSeq(html, ConvAt + 1, RevAt - 1)
RevSection == SubSeq(html, RevAt + 1, ElsAt - 1)
ElsSection == SubSeq(html, ElsAt + 1, BodyEndAt - 1)

IsH3(l) == l # <<>> /\ Head(l) = "<h3>"
IsP(l) == l # <<>> /\ Head(l) = "<p>"

\* a section is a sequence of entries, each an <h3> line and a <p> line
EntriesOnly(sec) ==
    /\ Len(sec) % 2 = 0
    /\ \A i \in 1..Len(sec) : IF i % 2 = 1 THEN IsH3(sec[i]) ELSE IsP(sec[i])

Headings(sec) == SelectSeq(sec, IsH3)

HasDirect(v) == find_direct(v.text, term) # <<>>
HasReversed(v) == find_reversed(v.text, term) # <<>>

LocHeadings(vs) == [i \in 1..Len(vs) |-> H3(Loc(vs[i]))]

SkipHeadings(v) ==
    LET ms == find_els(v.text, term, DefaultMaxSkip)
    IN  [k \in 1..Len(ms) |-> H3(Loc(v) \o <<" (skip=">> \o Str(ms[k].skip) \o <<")">>)]

\* C8: the finished document holds the three sections in the order
\* Conventional, Reversed, Equidistant; the Conventional section has one entry
\* for each verse on which find_direct is non-empty, the Reversed section one
\* for each verse on which find_reversed is non-empty, the Equidistant section
\* one subsection per ELS result labelled with its skip, all in input verse
\* order and find_els result order; other verses have no entry.
C8_SectionsAndEntries ==
    GenDone =>
        /\ Cardinality(LinesEqual(ConventionalHeader)) = 1
        /\ Cardinality(LinesEqual(ReversedHeader)) = 1
        /\ Cardinality(LinesEqual(ElsHeader)) = 1
        /\ ConvAt < RevAt /\ RevAt < ElsAt /\ ElsAt < BodyEndAt
        /\ EntriesOnly(ConvSection) /\ EntriesOnly(RevSection) /\ EntriesOnly(ElsSection)
        /\ Headings(ConvSection) = LocHeadings(SelectSeq(verses, HasDirect))
        /\ Headings(RevSection) = LocHeadings(SelectSeq(verses, HasReversed))
        /\ Headings(ElsSection) = Concat([i \in 1..Len(verses) |-> SkipHeadings(verses[i])])

\* a document of two verses where the first has no entry in the Conventional
\* section, the second has one, and a verse has two ELS subsections
W_SectionsMixed ==
    /\ GenDone
    /\ Len(verses) = 2
    /\ ~HasDirect(verses[1]) /\ HasDirect(verses[2])
    /\ HasReversed(verses[1])
    /\ Len(find_els(verses[2].text, term, DefaultMaxSkip)) = 2

\* the number of spans of a class in the lines of a section
SpanCount(sec, css) ==
    Len(SelectSeq(Concat(sec), LAMBDA tok : tok = css))

\* C9: the three counts of the navigation line are the number of
\* highlight-direct spans in the Conventional section, the number of
\* highlight-reverse spans in the Reversed section and the number of
\* subsections in the Equidistant section.
C9_CountsAgreeWithBody ==
    GenDone =>
        LET shown == <<SpanCount(ConvSection, "highlight-direct"),
                       SpanCount(RevSection, "highlight-reverse"),
                       Len(Headings(ElsSection))>>
        IN  /\ Cardinality(LinesEqual(NavLine(shown))) = 1
            /\ \A i \in 1..Len(html) :
                  (html[i] # <<>> /\ Head(html[i]) = Head(NavLine(shown)))
                      => html[i] = NavLine(shown)

\* a document whose verse has two direct matches, and reversed and ELS matches
W_CountsSeveral ==
    /\ GenDone
    /\ \E i \in 1..Len(verses) : Len(find_direct(verses[i].text, term)) = 2
    /\ counts[2] >= 1
    /\ counts[3] >= 2

EntityTails == { <<"a", "m", "p", ";">>, <<"l", "t", ";">>, <<"g", "t", ";">> }

\* C10: no '<' or '>' of the input appears raw in the document, and every '&'
\* of the document begins one of the entities &amp;, &lt;, &gt;: the only
\* raw '<' and '>' are those of the template and of the span markers.
C10_InputDataEscaped ==
    GenDone =>
        \A i \in 1..Len(report) :
            /\ report[i] \notin {"<", ">"}
            /\ report[i] = "&" =>
                  \E tail \in EntityTails :
                      SubSeq(report, i + 1, i + Len(tail)) = tail

=============================================================================
